---- MODULE Spec2Model ----
(***************************************************************************)
(* Subscription billing of codementor-ai-platform: the Stripe webhook      *)
(* handlers of the subscription router and the Subscription model          *)
(* (src/unnamed/part_001).                                                 *)
(*                                                                         *)
(* The Subscription collection is a sequence of documents in insertion     *)
(* order (findOne returns the first match).  A document holds the fields   *)
(* the handlers and the gate read or write; startDate, companyInfo,        *)
(* metadata, stripePaymentMethodId and updatedAt are never touched by them *)
(* and are left out, as are the startDate/endDate of the user's            *)
(* denormalized summary; createdAt is carried where getChurnRate reads it  *)
(* (MetricsSpec, SnapshotSpec).  Dates are milliseconds since the epoch,   *)
(* an unset date is <<>> and a set one is <<ms>>.  Stripe timestamps are   *)
(* seconds; the handlers convert them with  new Date(s * 1000).            *)
(***************************************************************************)
EXTENDS Integers, Sequences, FiniteSets, TLC

VARIABLES subscriptions, users, now, lastType, lastResponse, pc, job, held, base,
          answer, reads

vars == <<subscriptions, users, now, lastType, lastResponse, pc, job, held, base,
          answer, reads>>

\* The state of the handlers that run concurrently (see ConcSpec): where each
\* is, the event it handles, the document it has loaded, and the store as it
\* was when they started.
conc == <<pc, job, held, base>>

\* What the operations that are no webhook delivery hand back (see ApiSpec,
\* GateSpec, MetricsSpec, SnapshotSpec): the value the last one returned, and the aggregates
\* a metrics request has read so far.
side == <<answer, reads>>
NoAnswer == [op |-> "none"]
NoReads == [q \in {} |-> 0]

\* ---------------------------------------------------------------- bounds
\* Time is counted in seconds: the billing periods the processor reports are
\* [k, k+1] for k in 1..MaxTime, and the wall clock runs from 0 to MaxTime - 1.
MaxTime == 2

\* The accounts.  Buyers complete checkouts; the others stay on the free tier
\* without a Subscription document, but own a processor customer (the checkout
\* route creates it before any payment).
Users == {"A", "B"}
Buyers == {"A"}
\* Processor subscription ids: the checkouts here carry the ids of IssuedSubIds;
\* the other id belongs to a subscription this store never heard of.
SubIds == {"sub_1", "sub_2"}
IssuedSubIds == {"sub_1"}
CustomerOf(u) == <<"cus", u>>
Customers == {CustomerOf(u) : u \in Users}

\* ---------------------------------------------------------------- dates
Unset == <<>>
MsPerSecond == 1000
\* new Date(seconds * 1000)
ToDate(seconds) == <<seconds * MsPerSecond>>
\* JavaScript truthiness of a Stripe timestamp: null and 0 are falsy.
Truthy(ts) == ts # 0

\* ---------------------------------------------------------------- catalog
BaseKeys ==
  {"maxProjects", "maxCollaborators", "aiTutorMinutes", "codeExecutions", "storageGB",
   "customDomains", "prioritySupport", "advancedAnalytics", "ssoEnabled", "apiAccess"}

Bundle(mp, mc, ai, ce, st, cd, ps, aa, sso, api) ==
  [maxProjects |-> mp, maxCollaborators |-> mc, aiTutorMinutes |-> ai,
   codeExecutions |-> ce, storageGB |-> st, customDomains |-> cd,
   prioritySupport |-> ps, advancedAnalytics |-> aa, ssoEnabled |-> sso,
   apiAccess |-> api]

PLANS ==
  [free |->
     [prices |-> [monthly |-> 0, yearly |-> 0],
      features |-> Bundle(3, 0, 10, 50, 1, 0, FALSE, FALSE, FALSE, FALSE)],
   starter |->
     [prices |-> [monthly |-> 19, yearly |-> 190],
      features |-> Bundle(10, 2, 100, 500, 10, 1, FALSE, TRUE, FALSE, FALSE)],
   pro |->
     [prices |-> [monthly |-> 49, yearly |-> 490],
      features |-> Bundle(50, 10, 500, 5000, 100, 5, TRUE, TRUE, FALSE, TRUE)],
   enterprise |->
     [prices |-> [monthly |-> 499, yearly |-> 4990],
      features |->
        [maxProjects |-> 999999, maxCollaborators |-> 999999,
         aiTutorMinutes |-> 999999, codeExecutions |-> 999999, storageGB |-> 1000,
         customDomains |-> 999999, prioritySupport |-> TRUE,
         advancedAnalytics |-> TRUE, ssoEnabled |-> TRUE, apiAccess |-> TRUE,
         whiteLabeling |-> TRUE, dedicatedManager |-> TRUE]]]

PlanKeys == DOMAIN PLANS
BillingCycles == {"monthly", "yearly"}

\* SubscriptionSchema.status enum
Statuses == {"active", "canceled", "past_due", "trialing", "expired", "paused"}
\* The statuses the processor's events carry here; "unpaid" is one of the
\* processor's statuses that the schema does not list.
EventStatuses == {"active", "trialing", "past_due", "canceled", "unpaid"}

\* ---------------------------------------------------------------- numbers
RECURSIVE GCD(_, _)
GCD(a, b) == IF b = 0 THEN a ELSE GCD(b, a % b)

\* The quotient n / d of JavaScript's number division, kept exact as a reduced
\* fraction (d > 0, n >= 0).
Quot(n, d) ==
  LET g == GCD(n, d) IN [num |-> n \div g, den |-> d \div g]

\* ---------------------------------------------------------------- documents
\* usage.lastResetDate (default: the time the document is built) is read by
\* nothing; it is kept from the first resetUsage on.
DefaultUsage ==
  [currentProjects |-> 0, aiTutorMinutesUsed |-> 0, codeExecutionsUsed |-> 0,
   storageUsedGB |-> 0]

\* What findOneAndUpdate(..., {upsert: true}) inserts for a user without a
\* document: the filter's userId, the schema defaults of the paths the update
\* does not set, and then the update (applied by CheckoutUpdate).
NewDocument(userId) ==
  [userId |-> userId, plan |-> "free", status |-> "active",
   billingCycle |-> "monthly", currency |-> "USD", amount |-> 0,
   mrr |-> Quot(0, 1), stripeCustomerId |-> <<>>, stripeSubscriptionId |-> "",
   currentPeriodStart |-> Unset, currentPeriodEnd |-> Unset, trialEnd |-> Unset,
   canceledAt |-> Unset, cancelAtPeriodEnd |-> FALSE,
   features |-> PLANS.free.features, usage |-> DefaultUsage]

\* Model.findOne({path: value}): the position of the first document that
\* matches, 0 when there is none.
FindOne(coll, path, value) ==
  LET hits == {i \in 1 .. Len(coll) : coll[i][path] = value}
  IN IF hits = {} THEN 0 ELSE CHOOSE i \in hits : \A j \in hits : i <= j

\* The schema validation document.save() runs: the status enum.
Valid(doc) == doc.status \in Statuses

\* document.save(): writes the paths modified since the document was loaded
\* onto the stored document, leaving its other paths as they are stored.
Save(coll, i, loaded, doc) ==
  [coll EXCEPT ![i] =
     [f \in DOMAIN @ |-> IF doc[f] # loaded[f] THEN doc[f] ELSE @[f]]]

\* What a handler hands back to the router.
Result(coll, usr, threw) == [subs |-> coll, users |-> usr, err |-> threw]

\* ---------------------------------------------------------------- handlers
\* CheckoutUpdate with the yearly amount stored as mrr undivided.
CheckoutUpdate_undividedMrr(doc, session, stripeSubscription) ==
  LET plan == session.plan
      billingCycle == session.billingCycle
      currency == IF session.currency = "" THEN "USD" ELSE session.currency
      amount == PLANS[plan].prices[billingCycle]
  IN [doc EXCEPT
        !.plan = plan,
        !.status = "active",
        !.billingCycle = billingCycle,
        !.currency = currency,
        !.amount = amount,
        !.mrr = Quot(amount, 1),
        !.stripeCustomerId = session.customer,
        !.stripeSubscriptionId = session.subscription,
        !.currentPeriodStart = ToDate(stripeSubscription.current_period_start),
        !.currentPeriodEnd = ToDate(stripeSubscription.current_period_end),
        !.trialEnd = IF Truthy(stripeSubscription.trial_end)
                     THEN ToDate(stripeSubscription.trial_end) ELSE Unset,
        !.features = PLANS[plan].features]

\* CheckoutUpdate with the amount divided by 12 whatever the billing cycle.
CheckoutUpdate_alwaysDivided(doc, session, stripeSubscription) ==
  [CheckoutUpdate_undividedMrr(doc, session, stripeSubscription) EXCEPT
     !.mrr = Quot(@.num, 12)]

\* CheckoutUpdate starting the document afresh: the cancellation is cleared.
CheckoutUpdate_clearsCancellation(doc, session, stripeSubscription) ==
  [CheckoutUpdate_undividedMrr(doc, session, stripeSubscription) EXCEPT
     !.mrr = IF session.billingCycle = "yearly" THEN Quot(@.num, 12) ELSE @,
     !.canceledAt = Unset,
     !.cancelAtPeriodEnd = FALSE]

\* handleCheckoutComplete, the update document of findOneAndUpdate.
CheckoutUpdate(doc, session, stripeSubscription) ==
  LET plan == session.plan
      billingCycle == session.billingCycle
      currency == IF session.currency = "" THEN "USD" ELSE session.currency
      amount == PLANS[plan].prices[billingCycle]
      mrr == IF billingCycle = "yearly" THEN Quot(amount, 12) ELSE Quot(amount, 1)
  IN [doc EXCEPT
        !.plan = plan,
        !.status = "active",
        !.billingCycle = billingCycle,
        !.currency = currency,
        !.amount = amount,
        !.mrr = mrr,
        !.stripeCustomerId = session.customer,
        !.stripeSubscriptionId = session.subscription,
        !.currentPeriodStart = ToDate(stripeSubscription.current_period_start),
        !.currentPeriodEnd = ToDate(stripeSubscription.current_period_end),
        !.trialEnd = IF Truthy(stripeSubscription.trial_end)
                     THEN ToDate(stripeSubscription.trial_end) ELSE Unset,
        !.features = PLANS[plan].features]

handleCheckoutComplete(coll, usr, session, stripeSubscription) ==
  LET userId == session.userId
      i == FindOne(coll, "userId", userId)
      coll2 == IF i = 0
               THEN Append(coll, CheckoutUpdate(NewDocument(userId), session,
                                                stripeSubscription))
               ELSE [coll EXCEPT ![i] = CheckoutUpdate(@, session, stripeSubscription)]
      usr2 == [usr EXCEPT ![userId] =
                 [plan |-> session.plan,
                  features |-> DOMAIN PLANS[session.plan].features]]
  IN Result(coll2, usr2, FALSE)

\* handleSubscriptionUpdate, the assignments to the loaded document.
UpdateAssign(doc, stripeSubscription) ==
  [doc EXCEPT
     !.status = stripeSubscription.status,
     !.currentPeriodStart = ToDate(stripeSubscription.current_period_start),
     !.currentPeriodEnd = ToDate(stripeSubscription.current_period_end),
     !.cancelAtPeriodEnd = stripeSubscription.cancel_at_period_end,
     !.canceledAt = IF Truthy(stripeSubscription.canceled_at)
                    THEN ToDate(stripeSubscription.canceled_at) ELSE @]

\* handleSubscriptionUpdate without the early return for a missing document:
\* the first assignment dereferences null and throws.
handleSubscriptionUpdate_noNullCheck(coll, usr, stripeSubscription) ==
  LET i == FindOne(coll, "stripeSubscriptionId", stripeSubscription.id)
  IN IF i = 0 THEN Result(coll, usr, TRUE)
     ELSE LET doc == UpdateAssign(coll[i], stripeSubscription)
          IN IF Valid(doc)
             THEN Result(Save(coll, i, coll[i], doc), usr, FALSE)
             ELSE Result(coll, usr, TRUE)

handleSubscriptionUpdate(coll, usr, stripeSubscription) ==
  LET i == FindOne(coll, "stripeSubscriptionId", stripeSubscription.id)
  IN IF i = 0 THEN Result(coll, usr, FALSE)
     ELSE LET doc == UpdateAssign(coll[i], stripeSubscription)
          IN IF Valid(doc)
             THEN Result(Save(coll, i, coll[i], doc), usr, FALSE)
             ELSE Result(coll, usr, TRUE)

\* handleSubscriptionDeleted, the assignments to the loaded document.
DeleteAssign(doc, t) ==
  [doc EXCEPT !.status = "canceled", !.canceledAt = <<t>>]

handleSubscriptionDeleted(coll, usr, stripeSubscription, t) ==
  LET i == FindOne(coll, "stripeSubscriptionId", stripeSubscription.id)
  IN IF i = 0 THEN Result(coll, usr, FALSE)
     ELSE LET doc == DeleteAssign(coll[i], t)
          IN Result(Save(coll, i, coll[i], doc),
                    [usr EXCEPT ![doc.userId].plan = "free"], FALSE)

\* handleInvoicePaid setting the customer's document active again.
handleInvoicePaid_reactivates(coll, usr, invoice) ==
  LET i == FindOne(coll, "stripeCustomerId", invoice.customer)
  IN IF i = 0 THEN Result(coll, usr, FALSE)
     ELSE Result(Save(coll, i, coll[i], [coll[i] EXCEPT !.status = "active"]),
                 usr, FALSE)

\* handleInvoicePaid: console.log of the invoice id, nothing else.
handleInvoicePaid(coll, usr, invoice) == Result(coll, usr, FALSE)

\* handlePaymentFailed, the assignment to the loaded document.
FailAssign(doc) == [doc EXCEPT !.status = "past_due"]

handlePaymentFailed(coll, usr, invoice) ==
  LET i == FindOne(coll, "stripeCustomerId", invoice.customer)
  IN IF i = 0 THEN Result(coll, usr, FALSE)
     ELSE Result(Save(coll, i, coll[i], FailAssign(coll[i])), usr, FALSE)

\* ---------------------------------------------------------------- the gate
Capabilities ==
  {"createProject", "aiTutor", "codeExecution", "prioritySupport",
   "advancedAnalytics", "sso", "api", "somethingElse"}

\* canUseFeature with the metered capabilities still granted at the limit.
canUseFeature_atLimit(doc, feature) ==
  CASE feature = "createProject" ->
         doc.usage.currentProjects <= doc.features.maxProjects
    [] feature = "aiTutor" ->
         doc.usage.aiTutorMinutesUsed <= doc.features.aiTutorMinutes
    [] feature = "codeExecution" ->
         doc.usage.codeExecutionsUsed <= doc.features.codeExecutions
    [] feature = "prioritySupport" -> doc.features.prioritySupport
    [] feature = "advancedAnalytics" -> doc.features.advancedAnalytics
    [] feature = "sso" -> doc.features.ssoEnabled
    [] feature = "api" -> doc.features.apiAccess
    [] OTHER -> TRUE

\* SubscriptionSchema.methods.canUseFeature
canUseFeature(doc, feature) ==
  CASE feature = "createProject" ->
         doc.usage.currentProjects < doc.features.maxProjects
    [] feature = "aiTutor" ->
         doc.usage.aiTutorMinutesUsed < doc.features.aiTutorMinutes
    [] feature = "codeExecution" ->
         doc.usage.codeExecutionsUsed < doc.features.codeExecutions
    [] feature = "prioritySupport" -> doc.features.prioritySupport
    [] feature = "advancedAnalytics" -> doc.features.advancedAnalytics
    [] feature = "sso" -> doc.features.ssoEnabled
    [] feature = "api" -> doc.features.apiAccess
    [] OTHER -> TRUE

\* ---------------------------------------------------------------- events
\* checkout.session.completed: the session's metadata and ids.  The session was
\* created for the user's own processor customer; an empty currency stands for
\* metadata without one.
Sessions ==
  [userId : Buyers, plan : PlanKeys \ {"free"}, billingCycle : BillingCycles,
   currency : {""}, customer : Customers, subscription : IssuedSubIds]

\* The plans the checkout route grants a trial (trial_period_days: 14).
TrialPlans == {"starter", "pro"}

\* What stripe.subscriptions.retrieve answers for a session of `plan`: a billing
\* period, and a trial end when a trial was granted (the trial runs to the end
\* of the first period), null/0 otherwise.
Retrieved(plan) ==
  {[current_period_start |-> k, current_period_end |-> k + 1,
    trial_end |-> IF plan \in TrialPlans THEN k + 1 ELSE 0] : k \in 1 .. MaxTime}

\* customer.subscription.updated: the processor's subscription object, with a
\* cancellation time (null/0 when it has none) up to t.
StripeSubscriptionsUpTo(t) ==
  UNION {[id : SubIds, status : EventStatuses,
          current_period_start : {k}, current_period_end : {k + 1},
          cancel_at_period_end : BOOLEAN, canceled_at : 0 .. t] : k \in 1 .. MaxTime}

\* The events that can arrive now: a cancellation is not in the future.
StripeSubscriptions == StripeSubscriptionsUpTo(now)

\* customer.subscription.deleted: of the subscription object the handler reads
\* the id alone.
DeletedSubscriptions == [id : SubIds]

Invoices == [customer : Customers]

\* ---------------------------------------------------------------- the router
\* router.post('/webhook') after a verified signature: the handler of the
\* event's type runs; 200 {received: true}, or 500 when the handler throws.
ResponseStatus(r) == IF r.err THEN 500 ELSE 200

Respond(r, type) ==
  /\ subscriptions' = r.subs
  /\ users' = r.users
  /\ lastType' = type
  /\ lastResponse' = ResponseStatus(r)
  /\ UNCHANGED <<now, conc, side>>

CheckoutCompleted ==
  \E session \in Sessions :
   \E stripeSubscription \in Retrieved(session.plan) :
    /\ session.customer = CustomerOf(session.userId)
    /\ \A i \in 1 .. Len(subscriptions) :
         subscriptions[i].stripeSubscriptionId = session.subscription
           => subscriptions[i].userId = session.userId
    /\ Respond(handleCheckoutComplete(subscriptions, users, session,
                                      stripeSubscription),
               "checkout.session.completed")

SubscriptionUpdated ==
  \E stripeSubscription \in StripeSubscriptions :
    /\ Respond(handleSubscriptionUpdate(subscriptions, users, stripeSubscription),
               "customer.subscription.updated")

SubscriptionDeleted ==
  \E stripeSubscription \in DeletedSubscriptions :
    /\ Respond(handleSubscriptionDeleted(subscriptions, users, stripeSubscription,
                                         now * MsPerSecond),
               "customer.subscription.deleted")

InvoicePaid ==
  \E invoice \in Invoices :
    /\ Respond(handleInvoicePaid(subscriptions, users, invoice), "invoice.paid")

PaymentFailed ==
  \E invoice \in Invoices :
    /\ Respond(handlePaymentFailed(subscriptions, users, invoice),
               "invoice.payment_failed")

\* The wall clock (new Date()) advances.
Tick ==
  /\ now < MaxTime - 1
  /\ now' = now + 1
  /\ UNCHANGED <<subscriptions, users, lastType, lastResponse, conc, side>>

Workers == {"w1", "w2"}
NoJob == [type |-> "none"]
NoUsers == [u \in Users |-> [plan |-> "free", features |-> {}]]

Init ==
  /\ subscriptions = <<>>
  /\ users = NoUsers
  /\ now = 0
  /\ lastType = "none"
  /\ lastResponse = 0
  /\ pc = [w \in Workers |-> "idle"]
  /\ job = [w \in Workers |-> NoJob]
  /\ held = [w \in Workers |-> <<>>]
  /\ base = <<>>
  /\ answer = NoAnswer
  /\ reads = NoReads

Next ==
  \/ CheckoutCompleted
  \/ SubscriptionUpdated
  \/ SubscriptionDeleted
  \/ InvoicePaid
  \/ PaymentFailed
  \/ Tick

Spec == Init /\ [][Next]_vars

\* ---------------------------------------------------------------- concurrency
\* Two webhook deliveries handled at the same time by two request workers.
\* Every await of a handler is a step of its own: the findOne that loads the
\* document, the save that writes it back, and, in handleSubscriptionDeleted,
\* the update of the user.  Nothing in the handlers orders the steps of one
\* worker against those of the other.
Jobs(t) ==
  {[type |-> "customer.subscription.updated", ev |-> e] :
     e \in StripeSubscriptionsUpTo(t)}
  \cup {[type |-> "customer.subscription.deleted", ev |-> e] :
     e \in DeletedSubscriptions}
  \cup {[type |-> "invoice.payment_failed", ev |-> e] : e \in Invoices}

\* The stores a first checkout (of pro, paid monthly) leaves behind.
AfterCheckout ==
  {handleCheckoutComplete(<<>>, NoUsers, session, stripeSubscription) :
     session \in {x \in Sessions : x.plan = "pro" /\ x.billingCycle = "monthly"},
     stripeSubscription \in Retrieved("pro")}

ConcInit ==
  /\ now \in 0 .. MaxTime - 1
  /\ \E r \in AfterCheckout : subscriptions = r.subs /\ users = r.users
  /\ base = subscriptions
  /\ lastType = "none"
  /\ lastResponse = 0
  /\ pc = [w \in Workers |-> "start"]
  /\ job \in [Workers -> Jobs(now)]
  /\ held = [w \in Workers |-> <<>>]
  /\ answer = NoAnswer
  /\ reads = NoReads

\* The position findOne answers for a job's event.
Lookup(coll, j) ==
  IF j.type = "invoice.payment_failed"
  THEN FindOne(coll, "stripeCustomerId", j.ev.customer)
  ELSE FindOne(coll, "stripeSubscriptionId", j.ev.id)

\* The assignments a job's handler makes to the document it loaded.
Assign(j, doc, t) ==
  CASE j.type = "customer.subscription.updated" -> UpdateAssign(doc, j.ev)
    [] j.type = "customer.subscription.deleted" -> DeleteAssign(doc, t)
    [] j.type = "invoice.payment_failed" -> FailAssign(doc)

\* await Subscription.findOne(...): the handler returns when there is no document.
Load(w) ==
  /\ pc[w] = "start"
  /\ LET i == Lookup(subscriptions, job[w])
     IN IF i = 0
        THEN /\ pc' = [pc EXCEPT ![w] = "done"]
             /\ held' = held
        ELSE /\ pc' = [pc EXCEPT ![w] = "loaded"]
             /\ held' = [held EXCEPT ![w] = <<i, subscriptions[i]>>]
  /\ UNCHANGED <<subscriptions, users, now, lastType, lastResponse, job, base, side>>

\* await subscription.save(): validation fails and the handler throws, or the
\* modified paths are written.
Store(w) ==
  /\ pc[w] = "loaded"
  /\ LET i == held[w][1]
         loaded == held[w][2]
         doc == Assign(job[w], loaded, now * MsPerSecond)
     IN IF Valid(doc)
        THEN /\ subscriptions' = Save(subscriptions, i, loaded, doc)
             /\ pc' = [pc EXCEPT ![w] =
                         IF job[w].type = "customer.subscription.deleted"
                         THEN "saved" ELSE "done"]
        ELSE /\ subscriptions' = subscriptions
             /\ pc' = [pc EXCEPT ![w] = "failed"]
  /\ UNCHANGED <<users, now, lastType, lastResponse, job, held, base, side>>

\* await User.findByIdAndUpdate(...) of handleSubscriptionDeleted.
Mirror(w) ==
  /\ pc[w] = "saved"
  /\ users' = [users EXCEPT ![held[w][2].userId].plan = "free"]
  /\ pc' = [pc EXCEPT ![w] = "done"]
  /\ UNCHANGED <<subscriptions, now, lastType, lastResponse, job, held, base, side>>

ConcNext == \E w \in Workers : Load(w) \/ Store(w) \/ Mirror(w)

ConcSpec == ConcInit /\ [][ConcNext]_vars

\* A job handled alone, start to end.
Alone(coll, usr, j, t) ==
  CASE j.type = "customer.subscription.updated" ->
         handleSubscriptionUpdate(coll, usr, j.ev)
    [] j.type = "customer.subscription.deleted" ->
         handleSubscriptionDeleted(coll, usr, j.ev, t)
    [] j.type = "invoice.payment_failed" ->
         handlePaymentFailed(coll, usr, j.ev)

\* The store after job j1 and then job j2, each handled alone.
Serial(coll, usr, j1, j2, t) ==
  LET r1 == Alone(coll, usr, j1, t)
  IN Alone(r1.subs, r1.users, j2, t).subs

\* C3: when two deliveries that select the same document have both been
\* handled, the store is what handling them one after the other, in one of
\* the two orders, leaves.
C3_SerializedPerKey ==
  ( /\ \A w \in Workers : pc[w] \in {"done", "failed"}
    /\ Lookup(base, job["w1"]) # 0
    /\ Lookup(base, job["w1"]) = Lookup(base, job["w2"]) )
  => \/ subscriptions = Serial(base, NoUsers, job["w1"], job["w2"], now * MsPerSecond)
     \/ subscriptions = Serial(base, NoUsers, job["w2"], job["w1"], now * MsPerSecond)

\* ---------------------------------------------------------------- upserts
\* Two checkout.session.completed deliveries handled at the same time.
\* findOneAndUpdate({userId}, ..., {upsert: true}) looks for the user's
\* document and then updates what it found or inserts a new one; userId has
\* an index that is not unique, so nothing in the database makes the look-up
\* and the insert of one upsert exclusive of those of another.
CheckoutJobs ==
  {[type |-> "checkout.session.completed", ev |-> session,
    retrieved |-> stripeSubscription] :
     session \in {z \in Sessions : z.customer = CustomerOf(z.userId)},
     stripeSubscription \in Retrieved("pro") \cup Retrieved("enterprise")}

UpsertInit ==
  /\ now \in 0 .. MaxTime - 1
  /\ subscriptions = <<>>
  /\ users = NoUsers
  /\ base = subscriptions
  /\ lastType = "none"
  /\ lastResponse = 0
  /\ pc = [w \in Workers |-> "start"]
  /\ job \in [Workers -> {j \in CheckoutJobs : j.retrieved \in Retrieved(j.ev.plan)}]
  /\ held = [w \in Workers |-> <<>>]
  /\ answer = NoAnswer
  /\ reads = NoReads

\* The upsert looks for the document of the session's user.
Match(w) ==
  /\ pc[w] = "start"
  /\ held' = [held EXCEPT ![w] = <<FindOne(subscriptions, "userId", job[w].ev.userId)>>]
  /\ pc' = [pc EXCEPT ![w] = "matched"]
  /\ UNCHANGED <<subscriptions, users, now, lastType, lastResponse, job, base, side>>

\* The upsert updates the document it found, or inserts one when it found none.
Upsert(w) ==
  /\ pc[w] = "matched"
  /\ LET i == held[w][1]
         session == job[w].ev
     IN subscriptions' =
          IF i = 0
          THEN Append(subscriptions,
                      CheckoutUpdate(NewDocument(session.userId), session,
                                     job[w].retrieved))
          ELSE [subscriptions EXCEPT
                  ![i] = CheckoutUpdate(@, session, job[w].retrieved)]
  /\ pc' = [pc EXCEPT ![w] = "upserted"]
  /\ UNCHANGED <<users, now, lastType, lastResponse, job, held, base, side>>

\* await User.findByIdAndUpdate(...) of handleCheckoutComplete.
MirrorPlan(w) ==
  /\ pc[w] = "upserted"
  /\ users' = [users EXCEPT ![job[w].ev.userId] =
                 [plan |-> job[w].ev.plan,
                  features |-> DOMAIN PLANS[job[w].ev.plan].features]]
  /\ pc' = [pc EXCEPT ![w] = "done"]
  /\ UNCHANGED <<subscriptions, now, lastType, lastResponse, job, held, base, side>>

UpsertNext == \E w \in Workers : Match(w) \/ Upsert(w) \/ MirrorPlan(w)

UpsertSpec == UpsertInit /\ [][UpsertNext]_vars

\* ---------------------------------------------------------------- the routes
\* The webhook route from the signature check on, and the two routes of a
\* signed-in user that talk to the processor.  Here a delivery may fail its
\* signature check and a call to the processor may throw.
\* The currencies a request asks for: one with price ids, one without.
Currencies == {"USD", "GBP"}

\* PLANS[plan].stripeIds: the plans that have price ids, by cycle and currency.
StripeIds ==
  [starter |->
     [monthly |-> [USD |-> "price_starter_monthly_usd",
                   EUR |-> "price_starter_monthly_eur"],
      yearly |-> [USD |-> "price_starter_yearly_usd",
                  EUR |-> "price_starter_yearly_eur"]],
   pro |->
     [monthly |-> [USD |-> "price_pro_monthly_usd", EUR |-> "price_pro_monthly_eur"],
      yearly |-> [USD |-> "price_pro_yearly_usd", EUR |-> "price_pro_yearly_eur"]]]

\* PLANS[plan].stripeIds?.[billingCycle]?.[currency], "" for undefined.
PriceId(plan, billingCycle, currency) ==
  IF /\ plan \in DOMAIN StripeIds
     /\ billingCycle \in DOMAIN StripeIds[plan]
     /\ currency \in DOMAIN StripeIds[plan][billingCycle]
  THEN StripeIds[plan][billingCycle][currency]
  ELSE ""

\* Subscription.findOne({userId, status: 'active'}): the position of the first
\* match, 0 when there is none.
FindActive(coll, userId) ==
  LET hits == {i \in 1 .. Len(coll) :
                 coll[i].userId = userId /\ coll[i].status = "active"}
  IN IF hits = {} THEN 0 ELSE CHOOSE i \in hits : \A j \in hits : i <= j

\* The request bodies of /create-checkout-session: "team" is a plan the catalog
\* does not have.
Bodies == [plan : PlanKeys \cup {"team"}, billingCycle : BillingCycles,
           currency : Currencies]

\* Which call to the processor throws in a request: 0 for none, k for the k-th.
Throwing == 0 .. 2

\* router.post('/create-checkout-session'): the response status and the calls
\* made to the processor, in order.  The store is only read.
createCheckoutSession(coll, userId, body, throws) ==
  IF body.plan \notin PlanKeys \/ body.plan = "free"
  THEN [status |-> 400, calls |-> <<>>]
  ELSE LET i == FindActive(coll, userId)
           customer == IF i # 0 /\ coll[i].stripeCustomerId # <<>>
                       THEN "customers.retrieve" ELSE "customers.create"
       IN IF throws = 1 THEN [status |-> 500, calls |-> <<customer>>]
          ELSE IF PriceId(body.plan, body.billingCycle, body.currency) = ""
          THEN [status |-> 400, calls |-> <<customer>>]
          ELSE [status |-> IF throws = 2 THEN 500 ELSE 200,
                calls |-> <<customer, "checkout.sessions.create">>]

\* What a route leaves behind: the store, the profiles, the response status.
Outcome(coll, usr, code) == [subs |-> coll, users |-> usr, status |-> code]

\* /cancel with the document saved before the processor is asked.
cancel_saveFirst(coll, usr, userId, throws) ==
  LET i == FindActive(coll, userId)
  IN IF i = 0 \/ coll[i].stripeSubscriptionId = ""
     THEN Outcome(coll, usr, 404)
     ELSE LET saved == Save(coll, i, coll[i],
                            [coll[i] EXCEPT !.cancelAtPeriodEnd = TRUE])
          IN Outcome(saved, usr, IF throws = 1 THEN 500 ELSE 200)

\* router.post('/cancel'): stripe.subscriptions.update, then the save of
\* cancelAtPeriodEnd; the catch answers 500.
cancel(coll, usr, userId, throws) ==
  LET i == FindActive(coll, userId)
  IN IF i = 0 \/ coll[i].stripeSubscriptionId = ""
     THEN Outcome(coll, usr, 404)
     ELSE IF throws = 1
     THEN Outcome(coll, usr, 500)
     ELSE LET doc == [coll[i] EXCEPT !.cancelAtPeriodEnd = TRUE]
          IN IF Valid(doc)
             THEN Outcome(Save(coll, i, coll[i], doc), usr, 200)
             ELSE Outcome(coll, usr, 500)

\* The events a delivery can carry at time t, each with what
\* stripe.subscriptions.retrieve answers while it is handled (read by
\* handleCheckoutComplete only).
Events(t) ==
  {[type |-> "checkout.session.completed", object |-> x, retrieved |-> y] :
     x \in {z \in Sessions : z.customer = CustomerOf(z.userId)},
     y \in Retrieved("pro") \cup Retrieved("enterprise")}
  \cup {[type |-> "customer.subscription.updated", object |-> x] :
          x \in StripeSubscriptionsUpTo(t)}
  \cup {[type |-> "customer.subscription.deleted", object |-> x] :
          x \in DeletedSubscriptions}
  \cup {[type |-> "invoice.paid", object |-> x] : x \in Invoices}
  \cup {[type |-> "invoice.payment_failed", object |-> x] : x \in Invoices}

\* The switch of the webhook route: the handler of the event's type.  The
\* first await of handleCheckoutComplete is stripe.subscriptions.retrieve; when
\* it throws, the handler throws before it has written anything.
Dispatch(coll, usr, event, throws, t) ==
  CASE event.type = "checkout.session.completed" ->
         IF throws = 1 THEN Result(coll, usr, TRUE)
         ELSE handleCheckoutComplete(coll, usr, event.object, event.retrieved)
    [] event.type = "customer.subscription.updated" ->
         handleSubscriptionUpdate(coll, usr, event.object)
    [] event.type = "customer.subscription.deleted" ->
         handleSubscriptionDeleted(coll, usr, event.object, t)
    [] event.type = "invoice.paid" -> handleInvoicePaid(coll, usr, event.object)
    [] event.type = "invoice.payment_failed" ->
         handlePaymentFailed(coll, usr, event.object)

\* The webhook route with the failed signature check logged and passed over.
webhook_unchecked(coll, usr, verified, event, throws, t) ==
  LET r == Dispatch(coll, usr, event, throws, t)
  IN Outcome(r.subs, r.users, IF verified THEN ResponseStatus(r) ELSE 400)

\* router.post('/webhook'): stripe.webhooks.constructEvent throws on a bad
\* signature and the route answers 400; otherwise the handler runs.
webhook(coll, usr, verified, event, throws, t) ==
  IF ~verified
  THEN Outcome(coll, usr, 400)
  ELSE LET r == Dispatch(coll, usr, event, throws, t)
       IN Outcome(r.subs, r.users, ResponseStatus(r))

\* A delivery reaches the webhook route.  A delivery that fails the signature
\* check has no event type the route could know, and only the handler of
\* checkout.session.completed calls the processor.
Delivery ==
  \E verified \in BOOLEAN, event \in Events(now), throws \in Throwing :
    /\ throws # 0 => verified /\ event.type = "checkout.session.completed"
    /\ event.type = "checkout.session.completed" =>
         /\ event.retrieved \in Retrieved(event.object.plan)
         /\ \A i \in 1 .. Len(subscriptions) :
              subscriptions[i].stripeSubscriptionId = event.object.subscription
                => subscriptions[i].userId = event.object.userId
    /\ LET r == webhook(subscriptions, users, verified, event, throws,
                        now * MsPerSecond)
       IN /\ subscriptions' = r.subs
          /\ users' = r.users
          /\ lastResponse' = r.status
    /\ lastType' = IF verified THEN event.type ELSE "unverified"
    /\ answer' = NoAnswer
    /\ UNCHANGED <<now, conc, reads>>

StartCheckout ==
  \E userId \in Buyers, body \in Bodies, throws \in Throwing :
    /\ LET r == createCheckoutSession(subscriptions, userId, body, throws)
       IN /\ lastResponse' = r.status
          /\ answer' = [op |-> "create-checkout-session", calls |-> r.calls]
    /\ lastType' = "create-checkout-session"
    /\ UNCHANGED <<subscriptions, users, now, conc, reads>>

Cancel ==
  \E userId \in Users, throws \in Throwing :
    /\ LET r == cancel(subscriptions, users, userId, throws)
       IN /\ subscriptions' = r.subs
          /\ users' = r.users
          /\ lastResponse' = r.status
    /\ lastType' = "cancel"
    /\ answer' = NoAnswer
    /\ UNCHANGED <<now, conc, reads>>

ApiNext ==
  \/ Delivery
  \/ StartCheckout
  \/ Cancel

ApiSpec == Init /\ [][ApiNext]_vars

\* ---------------------------------------------------------------- late clock
\* The clock goes on past the end of the billing periods the processor has
\* reported, while webhook deliveries keep arriving.  No route, handler or
\* schema method writes a status because of the time alone: isActive is a
\* virtual computed when it is read.
isActive(doc, t) ==
  doc.status = "active" /\ doc.currentPeriodEnd # Unset /\ doc.currentPeriodEnd[1] > t

LateTick ==
  /\ now >= MaxTime - 1
  /\ now <= MaxTime
  /\ now' = now + 1
  /\ UNCHANGED <<subscriptions, users, lastType, lastResponse, conc, side>>

LateNext ==
  \/ Next
  \/ LateTick

LateSpec == Init /\ [][LateNext]_vars

\* ---------------------------------------------------------------- usage
\* The usage counters are written by the parts of the platform that consume
\* the capabilities; here a document starts with counters anywhere around its
\* plan's limits, and the two schema methods on usage are applied to it.
Near == 1
MaxStorage == 1

UsedAround(limit) == {0} \cup (limit - Near .. limit + Near)

\* SubscriptionSchema.methods.resetUsage: the store after this.save().
resetUsage(coll, i, t) ==
  LET doc == [coll[i] EXCEPT
                !.usage = [currentProjects |-> @.currentProjects,
                           aiTutorMinutesUsed |-> 0,
                           codeExecutionsUsed |-> 0,
                           storageUsedGB |-> @.storageUsedGB,
                           lastResetDate |-> <<t>>]]
  IN IF Valid(doc) THEN Save(coll, i, coll[i], doc) ELSE coll

\* The stores a first checkout leaves behind, with the usage of the document.
Metered(r, usage) ==
  [subs |-> [r.subs EXCEPT ![1].usage = usage], users |-> r.users]

GateInit ==
  /\ now \in 0 .. MaxTime - 1
  /\ \E session \in {z \in Sessions : z.customer = CustomerOf(z.userId)} :
      \E stripeSubscription \in Retrieved(session.plan) :
       LET r == handleCheckoutComplete(<<>>, NoUsers, session, stripeSubscription)
           features == r.subs[1].features
       IN \E usage \in [currentProjects : UsedAround(features.maxProjects),
                        aiTutorMinutesUsed : UsedAround(features.aiTutorMinutes),
                        codeExecutionsUsed : UsedAround(features.codeExecutions),
                        storageUsedGB : 0 .. MaxStorage] :
            /\ stripeSubscription.current_period_start = 1
            /\ session.billingCycle = "monthly"
            /\ subscriptions = Metered(r, usage).subs
            /\ users = r.users
  /\ lastType = "none"
  /\ lastResponse = 0
  /\ pc = [w \in Workers |-> "idle"]
  /\ job = [w \in Workers |-> NoJob]
  /\ held = [w \in Workers |-> <<>>]
  /\ base = <<>>
  /\ answer = NoAnswer
  /\ reads = NoReads

CanUseFeature ==
  \E i \in 1 .. Len(subscriptions), feature \in Capabilities :
    /\ answer' = [op |-> "canUseFeature", at |-> i, feature |-> feature,
                  value |-> canUseFeature(subscriptions[i], feature)]
    /\ UNCHANGED <<subscriptions, users, now, lastType, lastResponse, conc, reads>>

ResetUsage ==
  \E i \in 1 .. Len(subscriptions) :
    /\ subscriptions' = resetUsage(subscriptions, i, now * MsPerSecond)
    /\ answer' = [op |-> "resetUsage", at |-> i]
    /\ UNCHANGED <<users, now, lastType, lastResponse, conc, reads>>

GateNext ==
  \/ CanUseFeature
  \/ ResetUsage

GateSpec == GateInit /\ [][GateNext]_vars

\* ---------------------------------------------------------------- metrics
\* The revenue statics of the schema and the /metrics route.  The documents
\* carry here the createdAt that mongoose's timestamps give them, which
\* getChurnRate reads; a month of its window is one unit of the clock.
MaxDocs == 3
DefaultMonths == 3
Accounts == <<"A", "B", "C", "D">>

Plus(a, b) == Quot(a.num * b.den + b.num * a.den, a.den * b.den)
Times(a, k) == Quot(a.num * k, a.den)

\* $match: {status: 'active', plan: {$ne: 'free'}}
Paying(doc) == doc.status = "active" /\ doc.plan # "free"

\* $group: {_id: null, totalMRR: {$sum: '$mrr'}}
RECURSIVE SumMrr(_)
SumMrr(docs) ==
  IF docs = <<>> THEN Quot(0, 1) ELSE Plus(docs[1].mrr, SumMrr(Tail(docs)))

\* getMRR with the match on the plan alone.
getMRR_anyStatus(coll) ==
  LET docs == SelectSeq(coll, LAMBDA doc : doc.plan # "free")
  IN IF docs = <<>>
     THEN [totalMRR |-> Quot(0, 1), subscriberCount |-> 0]
     ELSE [totalMRR |-> SumMrr(docs), subscriberCount |-> Len(docs)]

\* SubscriptionSchema.statics.getMRR: the aggregate answers no group when
\* nothing matches.
getMRR(coll) ==
  LET docs == SelectSeq(coll, Paying)
  IN IF docs = <<>>
     THEN [totalMRR |-> Quot(0, 1), subscriberCount |-> 0]
     ELSE [totalMRR |-> SumMrr(docs), subscriberCount |-> Len(docs)]

\* SubscriptionSchema.statics.getARR
getARR(coll) == Times(getMRR(coll).totalMRR, 12)

\* startDate.setMonth(startDate.getMonth() - months)
StartDate(t, months) == t - months * MsPerSecond

\* countDocuments({createdAt: {$lt: startDate}, status: 'active'})
TotalAtStart(coll, startDate) ==
  Cardinality({i \in 1 .. Len(coll) :
                 coll[i].createdAt[1] < startDate /\ coll[i].status = "active"})

\* countDocuments({canceledAt: {$gte: startDate},
\*                 status: {$in: ['canceled', 'expired']}})
Churned(coll, startDate) ==
  Cardinality({i \in 1 .. Len(coll) :
                 /\ coll[i].canceledAt # Unset
                 /\ coll[i].canceledAt[1] >= startDate
                 /\ coll[i].status \in {"canceled", "expired"}})

\* totalAtStart > 0 ? (churned / totalAtStart) * 100 : 0
Rate(totalAtStart, churned) ==
  IF totalAtStart > 0 THEN Quot(churned * 100, totalAtStart) ELSE Quot(0, 1)

\* SubscriptionSchema.statics.getChurnRate
getChurnRate(coll, t, months) ==
  Rate(TotalAtStart(coll, StartDate(t, months)),
       Churned(coll, StartDate(t, months)))

SubOf == [A |-> "sub_1", B |-> "sub_2", C |-> "sub_3", D |-> "sub_4"]

\* What an account bought, and what became of its document: bought before the
\* default window and still active, bought within it, or bought before it and,
\* within it, deleted or failed to pay.
Purchases ==
  {[plan |-> "starter", billingCycle |-> "yearly"],
   [plan |-> "pro", billingCycle |-> "monthly"],
   [plan |-> "free", billingCycle |-> "monthly"]}
Histories == {"early", "late", "deleted", "failed"}

\* The document of an account after its checkout (and its deletion).
MetricDoc(u, purchase, history) ==
  LET at == IF history = "late" THEN DefaultMonths ELSE 0
      session == [userId |-> u, plan |-> purchase.plan,
                  billingCycle |-> purchase.billingCycle, currency |-> "",
                  customer |-> CustomerOf(u), subscription |-> SubOf[u]]
      stripeSubscription == [current_period_start |-> at,
                             current_period_end |-> at + 1, trial_end |-> 0]
      doc == CheckoutUpdate(NewDocument(u), session, stripeSubscription)
             @@ [createdAt |-> ToDate(at)]
  IN CASE history = "deleted" -> DeleteAssign(doc, ToDate(DefaultMonths)[1])
       [] history = "failed" -> FailAssign(doc)
       [] OTHER -> doc

\* The stores of the first n accounts.
StoresOf(n) ==
  {[i \in 1 .. n |-> MetricDoc(Accounts[i], f[i].purchase, f[i].history)] :
     f \in [1 .. n -> [purchase : Purchases, history : Histories]]}

\* The window lengths getChurnRate is asked for.
Windows == 1 .. DefaultMonths + 1

\* The accounts' profiles are neither read nor written by these operations.
MetricsInit ==
  /\ now = DefaultMonths + 1
  /\ \E n \in 0 .. MaxDocs : subscriptions \in StoresOf(n)
  /\ users = NoUsers
  /\ lastType = "none"
  /\ lastResponse = 0
  /\ pc = [w \in Workers |-> "idle"]
  /\ job = [w \in Workers |-> NoJob]
  /\ held = [w \in Workers |-> <<>>]
  /\ base = <<>>
  /\ answer = NoAnswer
  /\ reads = NoReads

\* A static is called on the store.
Call(op, value) ==
  /\ answer' = [op |-> op, value |-> value]
  /\ UNCHANGED <<subscriptions, users, now, lastType, lastResponse, conc, reads>>

GetMRR ==
  /\ Call("getMRR", getMRR(subscriptions))

GetARR ==
  /\ Call("getARR", getARR(subscriptions))

GetChurnRate ==
  \E months \in Windows :
    /\ Call("getChurnRate", getChurnRate(subscriptions, now * MsPerSecond, months))

MetricsNext ==
  \/ GetMRR
  \/ GetARR
  \/ GetChurnRate

MetricsSpec == MetricsInit /\ [][MetricsNext]_vars

\* ---------------------------------------------------------------- the snapshot
\* One /metrics request of an administrator, from its queries to its response,
\* while invoice.payment_failed deliveries are handled.
SnapshotInit ==
  /\ now = DefaultMonths + 1
  /\ \E n \in 0 .. MaxDocs - 1 : subscriptions \in StoresOf(n)
  /\ users = NoUsers
  /\ lastType = "none"
  /\ lastResponse = 0
  /\ pc = [w \in Workers |-> "idle"]
  /\ job = [w \in Workers |-> NoJob]
  /\ held = [w \in Workers |-> <<>>]
  /\ base = <<>>
  /\ answer = NoAnswer
  /\ reads = NoReads

\* One query of the /metrics request has answered.
Read(q, value) ==
  /\ answer = NoAnswer
  /\ q \notin DOMAIN reads
  /\ reads' = [x \in DOMAIN reads \cup {q} |-> IF x = q THEN value ELSE reads[x]]
  /\ UNCHANGED <<subscriptions, users, now, lastType, lastResponse, conc, answer>>

\* Promise.all starts getMRR, getARR and getChurnRate together: their queries
\* reach the store in any order, and deliveries are handled in between.
ReadMRR ==
  /\ Read("mrr", getMRR(subscriptions))

ReadARR ==
  /\ Read("arr", getARR(subscriptions))

ReadTotalAtStart ==
  /\ Read("totalAtStart",
          TotalAtStart(subscriptions, StartDate(now * MsPerSecond, DefaultMonths)))

ReadChurned ==
  /\ "totalAtStart" \in DOMAIN reads
  /\ Read("churned",
          Churned(subscriptions, StartDate(now * MsPerSecond, DefaultMonths)))

\* res.json({success: true, metrics: {mrr, arr, subscribers, churnRate}})
Reply ==
  /\ DOMAIN reads = {"mrr", "arr", "totalAtStart", "churned"}
  /\ answer' = [op |-> "metrics", mrr |-> reads.mrr.totalMRR, arr |-> reads.arr,
                subscribers |-> reads.mrr.subscriberCount,
                churnRate |-> Rate(reads.totalAtStart, reads.churned)]
  /\ reads' = NoReads
  /\ lastType' = "metrics"
  /\ lastResponse' = 200
  /\ UNCHANGED <<subscriptions, users, now, conc>>

\* invoice.payment_failed for one of the stored customers.
PaymentFailedMeanwhile ==
  \E i \in 1 .. Len(subscriptions) :
    /\ Respond(handlePaymentFailed(subscriptions, users,
                                   [customer |-> subscriptions[i].stripeCustomerId]),
               "invoice.payment_failed")

SnapshotNext ==
  \/ ReadMRR
  \/ ReadARR
  \/ ReadTotalAtStart
  \/ ReadChurned
  \/ Reply
  \/ PaymentFailedMeanwhile

SnapshotSpec == SnapshotInit /\ [][SnapshotNext]_vars

\* ---------------------------------------------------------------- properties
\* The positions of the documents an event's key selects.
WithSubId(coll, id) == {i \in 1 .. Len(coll) : coll[i].stripeSubscriptionId = id}
WithCustomer(coll, c) == {i \in 1 .. Len(coll) : coll[i].stripeCustomerId = c}

\* A step that is the delivery of a webhook event of the given type.
Delivered(type) == now' = now /\ lastType' = type

\* C1: for every stored document and every customer.subscription.updated event
\* for its processor subscription id, handling the event a second time leaves
\* the store as the first handling left it, and the second handling does not
\* fail.
C1_UpdateIdempotent ==
  \A ev \in StripeSubscriptions :
    WithSubId(subscriptions, ev.id) # {} =>
      LET once == handleSubscriptionUpdate(subscriptions, users, ev)
          twice == handleSubscriptionUpdate(once.subs, once.users, ev)
      IN /\ twice.subs = once.subs
         /\ twice.users = once.users
         /\ ResponseStatus(twice) = 200

\* C2: of two customer.subscription.updated events for the same stored
\* subscription, with valid statuses and period ends T2 < T1 (T1 not older than
\* the stored period end), the stored currentPeriodEnd is T1 after both, in
\* whichever order they are handled.
C2_LatestPeriodEndWins ==
  \A e1, e2 \in StripeSubscriptions :
    \A i \in WithSubId(subscriptions, e1.id) :
      ( /\ e2.id = e1.id
        /\ e1.status \in Statuses /\ e2.status \in Statuses
        /\ e2.current_period_end < e1.current_period_end
        /\ subscriptions[i].currentPeriodEnd[1] <= ToDate(e1.current_period_end)[1] )
      =>
        LET a == handleSubscriptionUpdate(subscriptions, users, e1)
            ab == handleSubscriptionUpdate(a.subs, a.users, e2)
            b == handleSubscriptionUpdate(subscriptions, users, e2)
            ba == handleSubscriptionUpdate(b.subs, b.users, e1)
        IN /\ ab.subs[i].currentPeriodEnd = ToDate(e1.current_period_end)
           /\ ba.subs[i].currentPeriodEnd = ToDate(e1.current_period_end)

\* C4: a customer.subscription.updated event for a stored document whose status
\* is outside the schema's enumeration leaves the document with status past_due.
C4_UnknownStatusBecomesPastDue ==
  \A ev \in StripeSubscriptions :
    \A i \in WithSubId(subscriptions, ev.id) :
      ev.status \notin Statuses =>
        handleSubscriptionUpdate(subscriptions, users, ev).subs[i].status = "past_due"

\* C5: the delivery of invoice.payment_failed changes a document only from
\* status active or trialing, and then only its status, to past_due; it
\* changes no user.
C5_PaymentFailedGuard ==
  [][Delivered("invoice.payment_failed") =>
       /\ users' = users
       /\ Len(subscriptions') = Len(subscriptions)
       /\ \A i \in 1 .. Len(subscriptions) :
            subscriptions'[i] # subscriptions[i] =>
              /\ subscriptions[i].status \in {"active", "trialing"}
              /\ subscriptions'[i] = [subscriptions[i] EXCEPT !.status = "past_due"]
    ]_vars

\* C6: an updated or deleted event whose subscription id, or a payment-failed
\* event whose customer id, selects no document leaves the store and the users
\* as they are and is answered 200.
C6_MissingRecordNoOp ==
  /\ \A ev \in StripeSubscriptions :
       WithSubId(subscriptions, ev.id) = {} =>
         LET r == handleSubscriptionUpdate(subscriptions, users, ev)
         IN r.subs = subscriptions /\ r.users = users /\ ResponseStatus(r) = 200
  /\ \A ev \in DeletedSubscriptions :
       WithSubId(subscriptions, ev.id) = {} =>
         LET r == handleSubscriptionDeleted(subscriptions, users, ev, now * MsPerSecond)
         IN r.subs = subscriptions /\ r.users = users /\ ResponseStatus(r) = 200
  /\ \A invoice \in Invoices :
       WithCustomer(subscriptions, invoice.customer) = {} =>
         LET r == handlePaymentFailed(subscriptions, users, invoice)
         IN r.subs = subscriptions /\ r.users = users /\ ResponseStatus(r) = 200

\* C6 witness: a document is stored, and the last delivery was a
\* customer.subscription.deleted that selected none (the stored document is not
\* canceled) and was answered 200.
C6_Witness ==
  /\ Len(subscriptions) = 1
  /\ subscriptions[1].status = "active"
  /\ lastType = "customer.subscription.deleted"
  /\ lastResponse = 200

\* C7: the delivery of customer.subscription.deleted leaves every document it
\* changes canceled, and keeps a canceledAt that was already set.
C7_DeletedKeepsCanceledAt ==
  [][Delivered("customer.subscription.deleted") =>
       /\ Len(subscriptions') = Len(subscriptions)
       /\ \A i \in 1 .. Len(subscriptions) :
            /\ subscriptions'[i] # subscriptions[i] =>
                 subscriptions'[i].status = "canceled"
            /\ subscriptions[i].canceledAt # Unset =>
                 subscriptions'[i].canceledAt = subscriptions[i].canceledAt
    ]_vars

\* C8: after the delivery of customer.subscription.deleted, a document it
\* changed carries the free plan's bundle, and the gate answers every
\* capability for it as it does against the free bundle.
C8_DeletedRevertsEntitlements ==
  [][Delivered("customer.subscription.deleted") =>
       \A i \in 1 .. Len(subscriptions) :
         subscriptions'[i] # subscriptions[i] =>
           /\ subscriptions'[i].features = PLANS.free.features
           /\ \A f \in Capabilities :
                canUseFeature(subscriptions'[i], f)
                  = canUseFeature([subscriptions'[i] EXCEPT
                                     !.features = PLANS.free.features], f)
    ]_vars

\* C9: after the delivery of customer.subscription.deleted, the owner of a
\* document it changed (a document a checkout created) has a summary with plan
\* free and the key set of the free bundle.
C9_ProfileRevertsToFree ==
  [][Delivered("customer.subscription.deleted") =>
       \A i \in 1 .. Len(subscriptions) :
         subscriptions'[i] # subscriptions[i] =>
           /\ users'[subscriptions[i].userId].plan = "free"
           /\ users'[subscriptions[i].userId].features = DOMAIN PLANS.free.features
    ]_vars

\* C10: after checkout.session.completed for a user, plan and billing cycle,
\* the user's document is active on that plan, amount is the catalog price,
\* mrr is amount (monthly) or amount / 12 (yearly), the features are the plan's
\* bundle, and the ids and the billing window are those of the event and of
\* the processor's subscription.
C10_CheckoutResult ==
  \A session \in Sessions :
    \A stripeSubscription \in Retrieved(session.plan) :
      LET r == handleCheckoutComplete(subscriptions, users, session, stripeSubscription)
          mine == {i \in 1 .. Len(r.subs) : r.subs[i].userId = session.userId}
          price == PLANS[session.plan].prices[session.billingCycle]
      IN /\ Cardinality(mine) = 1
         /\ ResponseStatus(r) = 200
         /\ \A i \in mine :
              LET doc == r.subs[i]
              IN /\ doc.status = "active"
                 /\ doc.plan = session.plan
                 /\ doc.billingCycle = session.billingCycle
                 /\ doc.amount = price
                 /\ doc.mrr.num * (IF session.billingCycle = "yearly" THEN 12 ELSE 1)
                      = price * doc.mrr.den
                 /\ doc.features = PLANS[session.plan].features
                 /\ doc.stripeCustomerId = session.customer
                 /\ doc.stripeSubscriptionId = session.subscription
                 /\ doc.currentPeriodStart
                      = <<stripeSubscription.current_period_start * 1000>>
                 /\ doc.currentPeriodEnd
                      = <<stripeSubscription.current_period_end * 1000>>
                 /\ (session.plan = "pro" /\ session.billingCycle = "monthly")
                      => doc.mrr = [num |-> 49, den |-> 1]

\* C10 witness: the last delivery was a checkout, and the user's document is
\* active on pro, monthly, with mrr 49 and the pro bundle.
C10_Witness ==
  /\ lastType = "checkout.session.completed"
  /\ lastResponse = 200
  /\ \E i \in 1 .. Len(subscriptions) :
       /\ subscriptions[i].userId = "A"
       /\ subscriptions[i].plan = "pro"
       /\ subscriptions[i].billingCycle = "monthly"
       /\ subscriptions[i].status = "active"
       /\ subscriptions[i].mrr = [num |-> 49, den |-> 1]
       /\ subscriptions[i].features = PLANS.pro.features


\* The checkout.session.completed events that can be delivered on the store.
CheckoutEvents ==
  {e \in Events(now) :
     /\ e.type = "checkout.session.completed"
     /\ e.retrieved \in Retrieved(e.object.plan)}

\* C11: a delivery whose signature check fails is answered 400, and the store
\* and the account profiles are after it what they were before it: no handler
\* has run.
C11_SignatureGate ==
  [][lastType' = "unverified" =>
       /\ lastResponse' = 400
       /\ subscriptions' = subscriptions
       /\ users' = users]_vars

\* A delivery was rejected while the store held an active subscription.
C11_Witness ==
  /\ lastType = "unverified"
  /\ lastResponse = 400
  /\ \E i \in 1 .. Len(subscriptions) : subscriptions[i].status = "active"

\* C12: a request to /create-checkout-session that is rejected for its plan or
\* for a plan, cycle and currency without a price id has made no call to the
\* processor.
C12_ValidationBeforeCalls ==
  (lastType = "create-checkout-session" /\ lastResponse = 400)
    => answer.calls = <<>>

\* C13: when the processor call of /cancel throws, or the one of
\* handleCheckoutComplete, the caller is answered 500 and the store and the
\* account profiles are exactly what they were.
C13_NoPartialState ==
  /\ \A userId \in Users :
       LET r == cancel(subscriptions, users, userId, 1)
       IN /\ r.subs = subscriptions
          /\ r.users = users
          /\ r.status = IF FindActive(subscriptions, userId) = 0 THEN 404 ELSE 500
  /\ \A event \in CheckoutEvents :
       LET r == webhook(subscriptions, users, TRUE, event, 1, now * MsPerSecond)
       IN /\ r.subs = subscriptions
          /\ r.users = users
          /\ r.status = 500

\* A /cancel failed at the processor and the subscription is still not set to
\* end with its period.
C13_Witness ==
  /\ lastType = "cancel"
  /\ lastResponse = 500
  /\ \E i \in 1 .. Len(subscriptions) :
       /\ subscriptions[i].status = "active"
       /\ ~subscriptions[i].cancelAtPeriodEnd


\* C14: every stored document with status active has a currentPeriodEnd later
\* than the current time.
C14_ActiveImpliesUnexpired ==
  \A i \in 1 .. Len(subscriptions) :
    subscriptions[i].status = "active"
      => isActive(subscriptions[i], now * MsPerSecond)


\* C15: every stored document has mrr >= 0, mrr = amount when it is billed
\* monthly and 12 * mrr = amount when it is billed yearly.
C15_MrrConsistent ==
  \A i \in 1 .. Len(subscriptions) :
    LET doc == subscriptions[i]
    IN /\ doc.mrr.num >= 0 /\ doc.mrr.den > 0
       /\ doc.billingCycle = "monthly" => doc.mrr.num = doc.amount * doc.mrr.den
       /\ doc.billingCycle = "yearly" => 12 * doc.mrr.num = doc.amount * doc.mrr.den

\* A document billed yearly, with an mrr that is no whole number, has been
\* through a later event.
C15_Witness ==
  /\ lastType \in {"customer.subscription.updated", "customer.subscription.deleted",
                   "invoice.payment_failed"}
  /\ lastResponse = 200
  /\ \E i \in 1 .. Len(subscriptions) :
       /\ subscriptions[i].billingCycle = "yearly"
       /\ subscriptions[i].mrr.den # 1
       /\ subscriptions[i].status # "active"


\* The counter and the limit of each metered capability.
Meter ==
  [createProject |-> <<"currentProjects", "maxProjects">>,
   aiTutor |-> <<"aiTutorMinutesUsed", "aiTutorMinutes">>,
   codeExecution |-> <<"codeExecutionsUsed", "codeExecutions">>]

\* C16: for project creation, AI-tutor minutes and code execution,
\* canUseFeature answers true exactly when the stored counter is strictly less
\* than the stored limit: it permits at limit - 1 and denies at the limit and
\* above.
C16_GateBoundary ==
  \A i \in 1 .. Len(subscriptions) :
    \A feature \in DOMAIN Meter :
      LET used == subscriptions[i].usage[Meter[feature][1]]
          limit == subscriptions[i].features[Meter[feature][2]]
          may == canUseFeature(subscriptions[i], feature)
      IN /\ may <=> used < limit
         /\ used = limit - 1 => may
         /\ used >= limit => ~may

\* The gate was asked for a code execution with the counter at the limit, and
\* denied it.
C16_Witness ==
  /\ answer.op = "canUseFeature"
  /\ answer.feature = "codeExecution"
  /\ ~answer.value
  /\ subscriptions[answer.at].usage.codeExecutionsUsed
       = subscriptions[answer.at].features.codeExecutions

\* C17: after resetUsage the document's four consumption counters are zero and
\* its lastResetDate is the current time.
C17_ResetZeroesCounters ==
  answer.op = "resetUsage" =>
    subscriptions[answer.at].usage =
      [currentProjects |-> 0, aiTutorMinutesUsed |-> 0, codeExecutionsUsed |-> 0,
       storageUsedGB |-> 0, lastResetDate |-> <<now * MsPerSecond>>]


\* Twelve times the mrr of the documents at the positions S, as a whole number.
RECURSIVE TwelveMrr(_, _)
TwelveMrr(coll, S) ==
  IF S = {} THEN 0
  ELSE LET i == CHOOSE x \in S : TRUE
       IN (12 * coll[i].mrr.num) \div coll[i].mrr.den + TwelveMrr(coll, S \ {i})

\* C18: getMRR answers the sum of mrr over exactly the documents with status
\* active and a plan other than free, together with their number, and total 0
\* with count 0 when there is no such document.
C18_TotalMrr ==
  LET paying == {i \in 1 .. Len(subscriptions) :
                   /\ subscriptions[i].status = "active"
                   /\ subscriptions[i].plan # "free"}
      r == getMRR(subscriptions)
  IN /\ r.subscriberCount = Cardinality(paying)
     /\ r.totalMRR.den > 0
     /\ 12 * r.totalMRR.num = r.totalMRR.den * TwelveMrr(subscriptions, paying)
     /\ paying = {} => r = [totalMRR |-> [num |-> 0, den |-> 1], subscriberCount |-> 0]

\* getMRR was called on a store with a paying document, an active one on the
\* free plan and one that is not active, and counted the first only.
C18_Witness ==
  /\ answer.op = "getMRR"
  /\ answer.value.subscriberCount = 1
  /\ answer.value.totalMRR.den # 1
  /\ \E i \in 1 .. Len(subscriptions) :
       subscriptions[i].status = "active" /\ subscriptions[i].plan = "free"
  /\ \E i \in 1 .. Len(subscriptions) :
       subscriptions[i].status # "active" /\ subscriptions[i].plan # "free"

\* C19: in every response of /metrics the arr is 12 times the mrr.
C19_ArrIsTwelveMrr ==
  answer.op = "metrics" => answer.arr = Times(answer.mrr, 12)

\* C20: getChurnRate answers a value from 0 to 100, and 0 when it counts no
\* document as active at the start of the window.
C20_ChurnRateRange ==
  /\ answer.op = "getChurnRate" =>
       /\ answer.value.num >= 0
       /\ answer.value.num <= 100 * answer.value.den
  /\ \A months \in Windows :
       TotalAtStart(subscriptions, StartDate(now * MsPerSecond, months)) = 0
         => getChurnRate(subscriptions, now * MsPerSecond, months).num = 0


\* C21: the delivery of invoice.paid leaves every document of the store and
\* every account profile as it was, and is answered 200.
C21_InvoicePaidInformational ==
  [][Delivered("invoice.paid") =>
       /\ subscriptions' = subscriptions
       /\ users' = users
       /\ lastResponse' = 200]_vars

\* invoice.paid was delivered for a customer whose document is past_due.
C21_Witness ==
  /\ lastType = "invoice.paid"
  /\ lastResponse = 200
  /\ \E i \in 1 .. Len(subscriptions) :
       /\ subscriptions[i].status = "past_due"
       /\ subscriptions[i].stripeCustomerId \in Customers


\* C22: the store holds at most one document for each user.
C22_OneRecordPerAccount ==
  \A u \in Users :
    Cardinality({i \in 1 .. Len(subscriptions) : subscriptions[i].userId = u}) <= 1


\* Usage counters a stored document may carry when its user buys again.
SomeUsage ==
  {DefaultUsage,
   [currentProjects |-> 2, aiTutorMinutesUsed |-> 7, codeExecutionsUsed |-> 40,
    storageUsedGB |-> 1]}

\* C23: checkout.session.completed for a user who has a document overwrites
\* its plan, status, billing cycle, currency, amount, mrr, processor ids,
\* billing window, trialEnd and features, and leaves its usage, canceledAt and
\* cancelAtPeriodEnd, and every other document, as stored.
C23_CheckoutFrame ==
  \A session \in Sessions :
    \A stripeSubscription \in Retrieved(session.plan) :
      \A usage \in SomeUsage :
        LET i == FindOne(subscriptions, "userId", session.userId)
        IN i # 0 =>
             LET coll == [subscriptions EXCEPT ![i].usage = usage]
                 r == handleCheckoutComplete(coll, users, session, stripeSubscription)
                 price == PLANS[session.plan].prices[session.billingCycle]
             IN /\ Len(r.subs) = Len(coll)
                /\ \A j \in 1 .. Len(coll) : j # i => r.subs[j] = coll[j]
                /\ r.subs[i].userId = coll[i].userId
                /\ r.subs[i].usage = usage
                /\ r.subs[i].canceledAt = coll[i].canceledAt
                /\ r.subs[i].cancelAtPeriodEnd = coll[i].cancelAtPeriodEnd
                /\ r.subs[i].plan = session.plan
                /\ r.subs[i].status = "active"
                /\ r.subs[i].billingCycle = session.billingCycle
                /\ r.subs[i].currency = "USD"
                /\ r.subs[i].amount = price
                /\ r.subs[i].mrr.num * (IF session.billingCycle = "yearly" THEN 12 ELSE 1)
                     = price * r.subs[i].mrr.den
                /\ r.subs[i].stripeCustomerId = session.customer
                /\ r.subs[i].stripeSubscriptionId = session.subscription
                /\ r.subs[i].currentPeriodStart
                     = ToDate(stripeSubscription.current_period_start)
                /\ r.subs[i].currentPeriodEnd
                     = ToDate(stripeSubscription.current_period_end)
                /\ r.subs[i].trialEnd
                     = IF stripeSubscription.trial_end = 0 THEN Unset
                       ELSE ToDate(stripeSubscription.trial_end)
                /\ r.subs[i].features = PLANS[session.plan].features

\* A user bought again after a cancellation: the document is active and still
\* carries the earlier canceledAt and cancelAtPeriodEnd.
C23_Witness ==
  /\ lastType = "checkout.session.completed"
  /\ lastResponse = 200
  /\ \E i \in 1 .. Len(subscriptions) :
       /\ subscriptions[i].status = "active"
       /\ subscriptions[i].canceledAt # Unset
       /\ subscriptions[i].cancelAtPeriodEnd

====
